---- MODULE Spec2Model ----
(***************************************************************************)
(* Model of status_fetcher.py: the StatusPage.io client                    *)
(* (fetch_status_page_data), the regional SEFAZ client                     *)
(* (fetch_sefaz_status) and the snapshot writer (main).                    *)
(*                                                                         *)
(* JSON objects are functions from keys to values, so that a missing key   *)
(* is a key outside DOMAIN (Python: KeyError on d[k], default on           *)
(* d.get(k)).  Timestamps and rendered times are sequences of one-         *)
(* character strings, so that split / strptime / strftime are computed     *)
(* character by character.                                                 *)
(***************************************************************************)
EXTENDS Integers, Sequences, FiniteSets, TLC

VARIABLES pc, now, response, real_data, sefaz_response, states_data, file

vars == <<pc, now, response, real_data, sefaz_response, states_data, file>>

(***************************************************************************)
(* Bounds of the model.                                                    *)
(***************************************************************************)
\* longest incidents + scheduled_maintenances payload of a unit response
MaxEntries == 2
\* number of minutes the wall clock may advance during a run
MaxClock == 2
\* longest regional response object (number of keys)
MaxRegions == 3

(***************************************************************************)
(* Characters and numbers.                                                 *)
(***************************************************************************)
Digits == <<"0", "1", "2", "3", "4", "5", "6", "7", "8", "9">>

IsDigit(c) == \E i \in 1..10 : Digits[i] = c

DigitVal(c) == (CHOOSE i \in 1..10 : Digits[i] = c) - 1

AllDigits(s) == \A i \in 1..Len(s) : IsDigit(s[i])

\* int() of a digit string of length 1 or 2 or 4
RECURSIVE IntOf(_)
IntOf(s) ==
    IF s = <<>> THEN 0
    ELSE 10 * IntOf(SubSeq(s, 1, Len(s) - 1)) + DigitVal(s[Len(s)])

\* '%02d' of a number in 0..99
Pad2(n) == <<Digits[(n \div 10) + 1], Digits[(n % 10) + 1]>>

\* index of the first occurrence of one of the characters cs in s at or
\* after position from; 0 when there is none
FindFrom(s, cs, from) ==
    IF \E i \in from..Len(s) : s[i] \in cs
    THEN CHOOSE i \in from..Len(s) :
            /\ s[i] \in cs
            /\ \A j \in from..(i - 1) : s[j] \notin cs
    ELSE 0

(***************************************************************************)
(* str.split('.')[0] : the text before the first '.', the whole text when  *)
(* it holds no '.'.                                                        *)
(***************************************************************************)
PrefixBefore(s, p) == IF p = 0 THEN s ELSE SubSeq(s, 1, p - 1)

SplitDotFirst(s) == PrefixBefore(s, FindFrom(s, {"."}, 1))

(***************************************************************************)
(* datetime.strptime(text, '%Y-%m-%dT%H:%M:%S').                            *)
(* The format compiles to the anchored, case-insensitive pattern           *)
(*   (\d\d\d\d)-(1[0-2]|0[1-9]|[1-9])-(3[01]|[12]\d|0[1-9]|[1-9]| [1-9])   *)
(*   T(2[0-3]|[0-1]\d|\d):([0-5]\d|\d):(6[0-1]|[0-5]\d|\d)                 *)
(* and the whole text must be consumed.  No field can hold a separator, so *)
(* the fields are the texts between the separators.                        *)
(***************************************************************************)
LeapYear(y) == (y % 4 = 0) /\ ((y % 100 # 0) \/ (y % 400 = 0))

DaysInMonth(y, m) ==
    IF m = 2 THEN (IF LeapYear(y) THEN 29 ELSE 28)
    ELSE IF m \in {4, 6, 9, 11} THEN 30 ELSE 31

\* a field of one or two digits: [lo1-9] alone, or two digits in lo2..hi2
NumField(f, lo1, lo2, hi2) ==
    /\ Len(f) \in {1, 2}
    /\ AllDigits(f)
    /\ IF Len(f) = 1 THEN IntOf(f) >= lo1
       ELSE IntOf(f) >= lo2 /\ IntOf(f) <= hi2

YearField(f) == Len(f) = 4 /\ AllDigits(f)

MonthField(f) == NumField(f, 1, 1, 12)

DayField(f) ==
    \/ NumField(f, 1, 1, 31)
    \/ Len(f) = 2 /\ f[1] = " " /\ IsDigit(f[2]) /\ DigitVal(f[2]) >= 1

HourField(f) == NumField(f, 0, 0, 23)

MinuteField(f) == NumField(f, 0, 0, 59)

SecondField(f) == NumField(f, 0, 0, 61)

DayValue(f) == IF f[1] = " " THEN DigitVal(f[2]) ELSE IntOf(f)

NoDateTime == [ok |-> FALSE, year |-> 0, month |-> 0, day |-> 0,
               hour |-> 0, minute |-> 0, second |-> 0]

\* the datetime built from the six matched fields: datetime(...) wants
\* year 1..9999, the day within the month, second 0..59
DateTimeOf(year, month, day, hour, minute, second) ==
    IF year < 1 \/ day > DaysInMonth(year, month) \/ second > 59
    THEN NoDateTime
    ELSE [ok |-> TRUE, year |-> year, month |-> month, day |-> day,
          hour |-> hour, minute |-> minute, second |-> second]

StrptimeFields(fY, fm, fd, fH, fM, fS) ==
    IF /\ YearField(fY) /\ MonthField(fm) /\ DayField(fd)
       /\ HourField(fH) /\ MinuteField(fM) /\ SecondField(fS)
    THEN DateTimeOf(IntOf(fY), IntOf(fm), DayValue(fd),
                    IntOf(fH), IntOf(fM), IntOf(fS))
    ELSE NoDateTime

\* the literal characters of the format, in order
FormatSeparators == <<{"-"}, {"-"}, {"T", "t"}, {":"}, {":"}>>

\* the positions of the separators seps in s, each searched after the one
\* before it; the search stops at the first separator that is missing
RECURSIVE SeparatorsFrom(_, _, _)
SeparatorsAfter(s, seps, p) ==
    IF p = 0 THEN <<>> ELSE <<p>> \o SeparatorsFrom(s, Tail(seps), p + 1)

SeparatorsFrom(s, seps, from) ==
    IF seps = <<>> THEN <<>>
    ELSE SeparatorsAfter(s, seps, FindFrom(s, Head(seps), from))

StrptimeAt(s, p) ==
    IF Len(p) < Len(FormatSeparators) THEN NoDateTime
    ELSE StrptimeFields(SubSeq(s, 1, p[1] - 1),
                        SubSeq(s, p[1] + 1, p[2] - 1),
                        SubSeq(s, p[2] + 1, p[3] - 1),
                        SubSeq(s, p[3] + 1, p[4] - 1),
                        SubSeq(s, p[4] + 1, p[5] - 1),
                        SubSeq(s, p[5] + 1, Len(s)))

Strptime(s) == StrptimeAt(s, SeparatorsFrom(s, FormatSeparators, 1))

(***************************************************************************)
(* datetime.strftime('%d/%m %H:%M')                                        *)
(***************************************************************************)
\* variant: month before day
StrftimeMonthFirst(dt) ==
    Pad2(dt.month) \o <<"/">> \o Pad2(dt.day) \o <<" ">>
        \o Pad2(dt.hour) \o <<":">> \o Pad2(dt.minute)

Strftime(dt) ==
    Pad2(dt.day) \o <<"/">> \o Pad2(dt.month) \o <<" ">>
        \o Pad2(dt.hour) \o <<":">> \o Pad2(dt.minute)

\* datetime.strptime(ts.split('.')[0], '%Y-%m-%dT%H:%M:%S')
\*     .strftime('%d/%m %H:%M'); ok = FALSE when strptime raises ValueError
Rendered(dt) ==
    IF dt.ok THEN [ok |-> TRUE, text |-> Strftime(dt)]
    ELSE [ok |-> FALSE, text |-> <<>>]

FormatTimestamp(ts) == Rendered(Strptime(SplitDotFirst(ts)))

(***************************************************************************)
(* The wall clock: datetime.now() after `n` minutes of the run.  The run   *)
(* starts at 09/03 23:58, so that a tick can change hour and day.          *)
(***************************************************************************)
DateTimeAtMinute(total) ==
    [ok |-> TRUE, year |-> 2024, month |-> 3,
     day |-> 9 + (total \div (24 * 60)),
     hour |-> (total \div 60) % 24, minute |-> total % 60, second |-> 0]

NowDateTime(n) == DateTimeAtMinute((23 * 60 + 58) + n)

(***************************************************************************)
(* Static configuration.                                                   *)
(***************************************************************************)
\* STATUS_PAGES, in its iteration (insertion) order
ProviderOrder == <<"AnyMarket", "PagSeguro", "Pagar.me">>

STATUS_PAGES == {ProviderOrder[i] : i \in 1..Len(ProviderOrder)}

STATUS_MAP ==
    [operational          |-> "operational",
     degraded_performance |-> "degraded",
     partial_outage       |-> "degraded",
     major_outage         |-> "investigating",
     under_maintenance    |-> "scheduled",
     investigating        |-> "investigating"]

\* variant: the key itself when the table does not hold it
StatusMapGetPassThrough(key, default) ==
    IF key \in DOMAIN STATUS_MAP THEN STATUS_MAP[key] ELSE key

\* STATUS_MAP.get(key, default)
StatusMapGet(key, default) ==
    IF key \in DOMAIN STATUS_MAP THEN STATUS_MAP[key] ELSE default

\* the lifecycle statuses of line 42 and of line 52
ActiveIncidentStatuses == {"investigating", "identified", "monitoring", "in_progress"}

ActiveMaintenanceStatuses == {"scheduled", "in_progress"}

(***************************************************************************)
(* fetch_status_page_data.  A call either returns a list or raises past    *)
(* the function (an exception that is no RequestException).                *)
(***************************************************************************)
Raised == [raised |-> TRUE, value |-> <<>>]

Returned(v) == [raised |-> FALSE, value |-> v]

\* the outcomes of requests.get / raise_for_status that raise a
\* RequestException
FetchFailureKinds == {"connection_error", "timeout", "http_error"}

\* the record appended for a retained incident (lines 43-48)
IncidentRecord(incident, time) ==
    [title  |-> incident.name,
     status |-> StatusMapGet(incident.status, "investigating"),
     time   |-> time,
     new    |-> TRUE]

\* the record appended for a retained maintenance (lines 53-58)
MaintenanceRecord(maintenance, time) ==
    [title  |-> maintenance.name,
     status |-> "scheduled",
     time   |-> time,
     new    |-> TRUE]

\* the for loop of lines 41-48 over the rest `list`, `incidents` being the
\* list built so far; t is the formatted created_at of the head of list
RECURSIVE IncidentsLoop(_, _)
\* variant: the record put in front of the list
AppendIncidentFront(list, incidents, t) ==
    IF ~ t.ok THEN Raised
    ELSE IncidentsLoop(Tail(list),
             <<IncidentRecord(Head(list), t.text)>> \o incidents)

AppendIncident(list, incidents, t) ==
    IF ~ t.ok THEN Raised
    ELSE IncidentsLoop(Tail(list),
             Append(incidents, IncidentRecord(Head(list), t.text)))

IncidentsStep(list, incidents, incident) ==
    IF "status" \notin DOMAIN incident THEN Raised
    ELSE IF incident.status \in ActiveIncidentStatuses
    THEN IF "name" \notin DOMAIN incident \/ "created_at" \notin DOMAIN incident
         THEN Raised
         ELSE AppendIncident(list, incidents, FormatTimestamp(incident.created_at))
    ELSE IncidentsLoop(Tail(list), incidents)

IncidentsLoop(list, incidents) ==
    IF list = <<>> THEN Returned(incidents)
    ELSE IncidentsStep(list, incidents, Head(list))

\* the for loop of lines 51-58
RECURSIVE MaintenancesLoop(_, _)
AppendMaintenance(list, incidents, t) ==
    IF ~ t.ok THEN Raised
    ELSE MaintenancesLoop(Tail(list),
             Append(incidents, MaintenanceRecord(Head(list), t.text)))

MaintenancesStep(list, incidents, maintenance) ==
    IF "status" \notin DOMAIN maintenance THEN Raised
    ELSE IF maintenance.status \in ActiveMaintenanceStatuses
    THEN IF "name" \notin DOMAIN maintenance
            \/ "scheduled_for" \notin DOMAIN maintenance
         THEN Raised
         ELSE AppendMaintenance(list, incidents,
                  FormatTimestamp(maintenance.scheduled_for))
    ELSE MaintenancesLoop(Tail(list), incidents)

MaintenancesLoop(list, incidents) ==
    IF list = <<>> THEN Returned(incidents)
    ELSE MaintenancesStep(list, incidents, Head(list))

\* data.get(key, [])
GetList(data, key) == IF key \in DOMAIN data THEN data[key] ELSE <<>>

\* the record of lines 62-67
OverallRecord(data, overall_status, clock) ==
    [title  |-> data.status.description,
     status |-> overall_status,
     time   |-> Strftime(NowDateTime(clock)),
     new    |-> FALSE]

\* variant: the fetch-failure record not marked new
FetchFailureResultNotNew(clock) ==
    <<[title  |-> "Erro ao carregar status. Dados podem estar desatualizados.",
       status |-> "degraded",
       time   |-> Strftime(NowDateTime(clock)),
       new    |-> FALSE]>>

\* the list of lines 73-78
FetchFailureResult(clock) ==
    <<[title  |-> "Erro ao carregar status. Dados podem estar desatualizados.",
       status |-> "degraded",
       time   |-> Strftime(NowDateTime(clock)),
       new    |-> TRUE]>>

\* variant: the overall record appended whether or not the list is empty
OrOverallAlways(data, clock, built) ==
    IF built.raised THEN Raised
    ELSE IF "description" \notin DOMAIN data.status THEN Raised
    ELSE Returned(Append(built.value, OverallRecord(data,
             StatusMapGet(data.status.indicator, "operational"), clock)))

\* lines 60-69: the list built by the two loops, or the overall record
\* when it is empty
OrOverall(data, clock, built) ==
    IF built.raised THEN Raised
    ELSE IF built.value = <<>>
    THEN IF "description" \notin DOMAIN data.status THEN Raised
         ELSE Returned(<<OverallRecord(data,
                  StatusMapGet(data.status.indicator, "operational"), clock)>>)
    ELSE built

\* lines 50-58 after the incidents loop
ThenMaintenances(data, afterIncidents) ==
    IF afterIncidents.raised THEN Raised
    ELSE MaintenancesLoop(GetList(data, "scheduled_maintenances"),
                          afterIncidents.value)

\* lines 34-69 on the parsed body `data`
ParseSummary(data, clock) ==
    IF "status" \notin DOMAIN data THEN Raised
    ELSE IF "indicator" \notin DOMAIN data.status THEN Raised
    ELSE OrOverall(data, clock,
             ThenMaintenances(data,
                 IncidentsLoop(GetList(data, "incidents"), <<>>)))

\* fetch_status_page_data: `resp` is the outcome of the GET, `clock` the
\* wall clock, `jsonErrorIsRequestException` whether the installed
\* requests raises a RequestException subclass from response.json()
\* (requests >= 2.27) or a plain ValueError (older releases)
fetch_status_page_data(resp, clock, jsonErrorIsRequestException) ==
    IF resp.kind \in FetchFailureKinds THEN Returned(FetchFailureResult(clock))
    ELSE IF resp.kind = "not_json"
    THEN IF jsonErrorIsRequestException THEN Returned(FetchFailureResult(clock))
         ELSE Raised
    ELSE ParseSummary(resp.data, clock)

(***************************************************************************)
(* fetch_sefaz_status.  The response object is the sequence of its items   *)
(* in iteration order; an item is [uf, is_object, info], info being the    *)
(* value when it is a JSON object.  Scalar JSON values are written as      *)
(* their JSON text.                                                        *)
(***************************************************************************)
\* Python truth value of a parsed JSON scalar
Truthy(json) == json \notin {"false", "null", "0", "0.0", "\"\"", "[]", "{}"}

\* variant: a missing flag counted as healthy
FlagIsTruthyDefaultTrue(status_info) ==
    IF "status" \in DOMAIN status_info THEN Truthy(status_info.status) ELSE TRUE

\* status_info.get('status'), None (falsy) when the key is missing
FlagIsTruthy(status_info) ==
    IF "status" \in DOMAIN status_info THEN Truthy(status_info.status) ELSE FALSE

\* lines 100-101 for one item
StateRecord(uf, status_info) ==
    [uf |-> uf, status |-> IF FlagIsTruthy(status_info) THEN "up" ELSE "slow"]

\* the for loop of lines 95-101
RECURSIVE SefazLoop(_, _)
SefazStep(items, states, item) ==
    IF ~ item.is_object THEN Raised
    ELSE SefazLoop(Tail(items), Append(states, StateRecord(item.uf, item.info)))

SefazLoop(items, states) ==
    IF items = <<>> THEN Returned(states)
    ELSE SefazStep(items, states, Head(items))

\* the list of lines 108-116
SefazFallback ==
    << [uf |-> "AC", status |-> "up"], [uf |-> "AL", status |-> "up"],
       [uf |-> "AP", status |-> "up"], [uf |-> "AM", status |-> "up"],
       [uf |-> "BA", status |-> "up"], [uf |-> "CE", status |-> "slow"],
       [uf |-> "DF", status |-> "up"], [uf |-> "ES", status |-> "up"],
       [uf |-> "GO", status |-> "up"], [uf |-> "MA", status |-> "up"],
       [uf |-> "MT", status |-> "up"], [uf |-> "MS", status |-> "up"],
       [uf |-> "MG", status |-> "up"], [uf |-> "PA", status |-> "up"],
       [uf |-> "PB", status |-> "up"], [uf |-> "PR", status |-> "up"],
       [uf |-> "PE", status |-> "up"], [uf |-> "PI", status |-> "up"],
       [uf |-> "RJ", status |-> "up"], [uf |-> "RN", status |-> "up"],
       [uf |-> "RS", status |-> "up"], [uf |-> "RO", status |-> "up"],
       [uf |-> "RR", status |-> "up"], [uf |-> "SC", status |-> "up"],
       [uf |-> "SP", status |-> "up"], [uf |-> "SE", status |-> "up"],
       [uf |-> "TO", status |-> "up"] >>

\* variant: a fallback list with every region "up"
fetch_sefaz_status_AllUp(resp, jsonErrorIsRequestException) ==
    IF resp.kind \in FetchFailureKinds \/ (resp.kind = "not_json" /\ jsonErrorIsRequestException)
    THEN Returned([i \in 1..Len(SefazFallback) |->
                      [uf |-> SefazFallback[i].uf, status |-> "up"]])
    ELSE IF resp.kind = "not_json" THEN Raised
    ELSE SefazLoop(resp.data, <<>>)

fetch_sefaz_status(resp, jsonErrorIsRequestException) ==
    IF resp.kind \in FetchFailureKinds THEN Returned(SefazFallback)
    ELSE IF resp.kind = "not_json"
    THEN IF jsonErrorIsRequestException THEN Returned(SefazFallback) ELSE Raised
    ELSE SefazLoop(resp.data, <<>>)

(***************************************************************************)
(* main: the run as a sequential process.  pc is its position:             *)
(*   "providers"  in the loop of lines 121-122, DOMAIN real_data being the *)
(*                providers fetched so far                                 *)
(*   "sefaz"      before line 125                                          *)
(*   "write"      before line 134                                          *)
(*   "done"       after line 137                                           *)
(*   "failed"     terminated by an exception a fetch let through           *)
(* file is the content of /home/ubuntu/real_time_data.json: <<>> when the  *)
(* file does not exist, <<document>> otherwise.                            *)
(***************************************************************************)
NoResponse == [kind |-> "none"]

NoData == [name \in {} |-> <<>>]

\* the document of lines 128-131
OutputData == [REAL_DATA |-> real_data, STATES_DATA |-> states_data]

\* line 122 for provider `name`, the call giving `result`
StoreProvider(name, result) ==
    IF result.raised
    THEN /\ pc' = "failed"
         /\ UNCHANGED real_data
    ELSE /\ real_data' = (name :> result.value) @@ real_data
         /\ pc' = IF Cardinality(DOMAIN real_data) + 1 = Len(ProviderOrder)
                  THEN "sefaz" ELSE "providers"

\* one iteration of the loop of lines 121-122, the GET answering resp
MainFetchProvider(resp, jsonErrorIsRequestException) ==
    /\ pc = "providers"
    /\ response' = resp
    /\ StoreProvider(ProviderOrder[Cardinality(DOMAIN real_data) + 1],
           fetch_status_page_data(resp, now, jsonErrorIsRequestException))
    /\ UNCHANGED <<now, sefaz_response, states_data, file>>

\* line 125, the call giving `result`
StoreStates(result) ==
    IF result.raised
    THEN /\ pc' = "failed"
         /\ UNCHANGED states_data
    ELSE /\ states_data' = result.value
         /\ pc' = "write"

MainFetchSefaz(resp, jsonErrorIsRequestException) ==
    /\ pc = "sefaz"
    /\ sefaz_response' = resp
    /\ StoreStates(fetch_sefaz_status(resp, jsonErrorIsRequestException))
    /\ UNCHANGED <<now, response, real_data, file>>

\* variant: the regional records of an existing file kept
MainWriteMerged ==
    /\ pc = "write"
    /\ file' = IF file = <<>> THEN <<OutputData>>
               ELSE <<[REAL_DATA |-> real_data, STATES_DATA |-> file[1].STATES_DATA]>>
    /\ pc' = "done"
    /\ UNCHANGED <<now, response, real_data, sefaz_response, states_data>>

\* lines 128-137: open(..., "w") and json.dump
MainWrite ==
    /\ pc = "write"
    /\ file' = <<OutputData>>
    /\ pc' = "done"
    /\ UNCHANGED <<now, response, real_data, sefaz_response, states_data>>

\* a minute of wall-clock time passes
Tick ==
    /\ now < MaxClock
    /\ pc \in {"providers", "sefaz", "write"}
    /\ now' = now + 1
    /\ UNCHANGED <<pc, response, real_data, sefaz_response, states_data, file>>

(***************************************************************************)
(* Inputs: timestamps.                                                     *)
(***************************************************************************)
\* "2024-01-02T03:04:05.000Z"
TsExample == <<"2","0","2","4","-","0","1","-","0","2","T","0","3",":","0","4",":","0","5",".","0","0","0","Z">>
\* "2023-12-31T23:59:58.441-06:00"
TsOffset == <<"2","0","2","3","-","1","2","-","3","1","T","2","3",":","5","9",":","5","8",".","4","4","1","-","0","6",":","0","0">>
\* "2024-02-29t10:30:00.5.7Z"
TsLeapDay == <<"2","0","2","4","-","0","2","-","2","9","t","1","0",":","3","0",":","0","0",".","5",".","7","Z">>
\* "2024-1-2T3:4:5.0Z"
TsUnpadded == <<"2","0","2","4","-","1","-","2","T","3",":","4",":","5",".","0","Z">>
\* "2024-03-10T08:15:00.000Z"
TsMaintenance == <<"2","0","2","4","-","0","3","-","1","0","T","0","8",":","1","5",":","0","0",".","0","0","0","Z">>
\* "2024-01-02T03:04:05Z" : no sub-second part, the Z stays
TsNoFraction == <<"2","0","2","4","-","0","1","-","0","2","T","0","3",":","0","4",":","0","5","Z">>
\* "2023-02-29T10:30:00.000Z" : no such day
TsBadDay == <<"2","0","2","3","-","0","2","-","2","9","T","1","0",":","3","0",":","0","0",".","0","0","0","Z">>

GoodTimestamps == {TsExample, TsOffset, TsLeapDay, TsUnpadded, TsMaintenance}

BadTimestamps == {TsNoFraction, TsBadDay}

(***************************************************************************)
(* Inputs: summary bodies.                                                 *)
(***************************************************************************)
SeqsOfLen(S, n) == [1..n -> S]

IncidentLifecycles ==
    ActiveIncidentStatuses \cup {"resolved", "postmortem", "scheduled"}

MaintenanceLifecycles ==
    ActiveMaintenanceStatuses \cup {"verifying", "completed"}

IncidentEntries ==
    {[status |-> s, name |-> "API errors", created_at |-> TsExample] :
        s \in IncidentLifecycles}
    \cup {[status |-> "identified", name |-> "Checkout latency", created_at |-> t] :
        t \in (GoodTimestamps \cup BadTimestamps) \ {TsExample, TsMaintenance}}
    \cup {[name |-> "API errors", created_at |-> TsExample],
          [status |-> "monitoring", created_at |-> TsExample],
          [status |-> "investigating", name |-> "API errors"],
          [status |-> "resolved"]}

MaintenanceEntries ==
    {[status |-> s, name |-> "DB upgrade", scheduled_for |-> TsMaintenance] :
        s \in MaintenanceLifecycles}
    \cup {[status |-> "scheduled", name |-> "Network window", scheduled_for |-> t] :
        t \in {TsOffset, TsNoFraction}}
    \cup {[name |-> "DB upgrade", scheduled_for |-> TsMaintenance],
          [status |-> "in_progress", name |-> "DB upgrade"]}

Payloads ==
    UNION { SeqsOfLen(IncidentEntries, i) \X SeqsOfLen(MaintenanceEntries, j) :
            <<i, j>> \in {ij \in (0..MaxEntries) \X (0..MaxEntries) :
                            ij[1] + ij[2] <= MaxEntries} }

Indicators == DOMAIN STATUS_MAP \cup {"none", "minor", "critical"}

AllOperational == [indicator |-> "none", description |-> "All Systems Operational"]

StatusObjects ==
    {[indicator |-> i, description |-> "X down"] : i \in Indicators}
    \cup {[description |-> "X down"], [indicator |-> "major_outage"]}

ResolvedIncident == [status |-> "resolved", name |-> "API errors", created_at |-> TsExample]

ActiveIncident == [status |-> "identified", name |-> "API errors", created_at |-> TsExample]

CompletedMaintenance == [status |-> "completed", name |-> "DB upgrade", scheduled_for |-> TsMaintenance]

ScheduledMaintenance == [status |-> "scheduled", name |-> "DB upgrade", scheduled_for |-> TsMaintenance]

SummaryBodies ==
    {[status |-> AllOperational, incidents |-> p[1], scheduled_maintenances |-> p[2]] :
        p \in Payloads}
    \cup {[status |-> st, incidents |-> <<>>, scheduled_maintenances |-> <<>>] :
        st \in StatusObjects}
    \cup {[status |-> st] : st \in StatusObjects}
    \cup {[status |-> st, incidents |-> <<ResolvedIncident>>,
           scheduled_maintenances |-> <<CompletedMaintenance>>] : st \in StatusObjects}
    \cup {[status |-> st, incidents |-> <<ActiveIncident>>] : st \in StatusObjects}
    \cup {[incidents |-> <<>>, scheduled_maintenances |-> <<>>]}

Failures == {[kind |-> k] : k \in FetchFailureKinds}

NotJson == [kind |-> "not_json"]

Ok(data) == [kind |-> "ok", data |-> data]

\* the outcomes of the GET a single call is tried on
FetchResponses == Failures \cup {NotJson} \cup {Ok(d) : d \in SummaryBodies}

\* the outcomes of the GET a run of main is tried on
MainResponses ==
    {[kind |-> "timeout"], [kind |-> "http_error"], NotJson}
    \cup {Ok([status |-> [indicator |-> i, description |-> "X down"],
              incidents |-> <<>>, scheduled_maintenances |-> <<>>]) :
            i \in Indicators}
    \cup {Ok([status |-> AllOperational,
              incidents |-> <<[status |-> s, name |-> "API errors",
                               created_at |-> TsUnpadded]>>,
              scheduled_maintenances |-> <<>>]) : s \in IncidentLifecycles}
    \cup {Ok([status |-> AllOperational, incidents |-> <<ResolvedIncident>>]),
          Ok([status |-> AllOperational,
              incidents |-> <<ResolvedIncident, ActiveIncident>>,
              scheduled_maintenances |-> <<ScheduledMaintenance>>]),
          Ok([status |-> [description |-> "X down"],
              incidents |-> <<>>, scheduled_maintenances |-> <<>>]),
          Ok([status |-> AllOperational,
              incidents |-> <<[status |-> "identified", name |-> "Checkout latency",
                               created_at |-> TsNoFraction]>>])}

(***************************************************************************)
(* Inputs: regional response objects.                                      *)
(***************************************************************************)
RegionCodes == {"SP", "CE", "RJ", "MG"}

StatusInfos ==
    {[status |-> v, nome |-> "Estado"] : v \in {"true", "false", "1", "0", "null"}}
    \cup {[nome |-> "Estado"]}

RegionItems ==
    {[uf |-> u, is_object |-> TRUE, info |-> i] : u \in RegionCodes, i \in StatusInfos}
    \cup {[uf |-> u, is_object |-> FALSE, info |-> [nome |-> "Estado"]] : u \in RegionCodes}

\* the keys of an object are distinct
DistinctKeys(items) ==
    \A i, j \in 1..Len(items) : items[i].uf = items[j].uf => i = j

RegionObjects ==
    UNION { {items \in SeqsOfLen(RegionItems, n) : DistinctKeys(items)} :
            n \in 0..MaxRegions }

SefazResponses == Failures \cup {NotJson} \cup {Ok(d) : d \in RegionObjects}

MainSefazResponses ==
    {[kind |-> "connection_error"], NotJson, Ok(<<>>),
     Ok(<<[uf |-> "SP", is_object |-> TRUE, info |-> [status |-> "true", nome |-> "Estado"]],
          [uf |-> "CE", is_object |-> TRUE, info |-> [nome |-> "Estado"]]>>),
     Ok(<<[uf |-> "SP", is_object |-> FALSE, info |-> [nome |-> "Estado"]]>>)}

(***************************************************************************)
(* Spec: a run of main.  The file may or may not exist before the run.     *)
(***************************************************************************)
OldSnapshot ==
    [REAL_DATA |-> [name \in STATUS_PAGES |->
                      <<[title |-> "All Systems Operational", status |-> "operational",
                         time |-> Strftime(NowDateTime(0)), new |-> FALSE]>>],
     STATES_DATA |-> SefazFallback]

PriorFiles == {<<>>, <<OldSnapshot>>}

Init ==
    /\ pc = "providers"
    /\ now = 0
    /\ response = NoResponse
    /\ real_data = NoData
    /\ sefaz_response = NoResponse
    /\ states_data = <<>>
    /\ file \in PriorFiles

FetchProviderStep ==
    \E resp \in MainResponses, j \in BOOLEAN : MainFetchProvider(resp, j)

FetchSefazStep ==
    \E resp \in MainSefazResponses, j \in BOOLEAN : MainFetchSefaz(resp, j)

Next == FetchProviderStep \/ FetchSefazStep \/ MainWrite \/ Tick

Spec == Init /\ [][Next]_vars

(***************************************************************************)
(* SpecFetch: one call of fetch_status_page_data on every outcome of the   *)
(* GET, for every configured provider.  pc is "call" before the call,      *)
(* "returned" after it returned (real_data holding the provider's result)  *)
(* and "raised" after it raised.                                           *)
(***************************************************************************)
FetchOutcome(name, result) ==
    IF result.raised
    THEN pc' = "raised" /\ UNCHANGED real_data
    ELSE pc' = "returned" /\ real_data' = (name :> result.value)

CallFetch(name, jsonErrorIsRequestException) ==
    /\ pc = "call"
    /\ FetchOutcome(name,
           fetch_status_page_data(response, now, jsonErrorIsRequestException))
    /\ UNCHANGED <<now, response, sefaz_response, states_data, file>>

InitFetch ==
    /\ pc = "call"
    /\ now \in 0..MaxClock
    /\ response \in FetchResponses
    /\ real_data = NoData
    /\ sefaz_response = NoResponse
    /\ states_data = <<>>
    /\ file = <<>>

NextFetch == \E name \in STATUS_PAGES, j \in BOOLEAN : CallFetch(name, j)

SpecFetch == InitFetch /\ [][NextFetch]_vars

(***************************************************************************)
(* SpecSefaz: one call of fetch_sefaz_status on every outcome of the GET.  *)
(***************************************************************************)
SefazOutcome(result) ==
    IF result.raised
    THEN pc' = "raised" /\ UNCHANGED states_data
    ELSE pc' = "returned" /\ states_data' = result.value

CallSefaz(jsonErrorIsRequestException) ==
    /\ pc = "call"
    /\ SefazOutcome(fetch_sefaz_status(sefaz_response, jsonErrorIsRequestException))
    /\ UNCHANGED <<now, response, real_data, sefaz_response, file>>

InitSefaz ==
    /\ pc = "call"
    /\ now = 0
    /\ response = NoResponse
    /\ real_data = NoData
    /\ sefaz_response \in SefazResponses
    /\ states_data = <<>>
    /\ file = <<>>

NextSefaz == \E j \in BOOLEAN : CallSefaz(j)

SpecSefaz == InitSefaz /\ [][NextSefaz]_vars

(***************************************************************************)
(* Vocabulary of the properties.                                           *)
(***************************************************************************)
IncidentStatusEnum == {"operational", "degraded", "investigating", "scheduled"}

RegionStatusEnum == {"up", "slow"}

IncidentFields == {"title", "status", "time", "new"}

\* text is dd/mm HH:MM of the date and time dt
ReadsAs(text, dt) ==
    /\ Len(text) = 11
    /\ text[3] = "/" /\ text[6] = " " /\ text[9] = ":"
    /\ \A i \in {1, 2, 4, 5, 7, 8, 10, 11} : IsDigit(text[i])
    /\ 10 * DigitVal(text[1]) + DigitVal(text[2]) = dt.day
    /\ 10 * DigitVal(text[4]) + DigitVal(text[5]) = dt.month
    /\ 10 * DigitVal(text[7]) + DigitVal(text[8]) = dt.hour
    /\ 10 * DigitVal(text[10]) + DigitVal(text[11]) = dt.minute

\* the day/month hour:minute of each well-formed input timestamp
ExpectedTime(ts) ==
    CASE ts = TsExample     -> <<"0","2","/","0","1"," ","0","3",":","0","4">>
      [] ts = TsOffset      -> <<"3","1","/","1","2"," ","2","3",":","5","9">>
      [] ts = TsLeapDay     -> <<"2","9","/","0","2"," ","1","0",":","3","0">>
      [] ts = TsUnpadded    -> <<"0","2","/","0","1"," ","0","3",":","0","4">>
      [] ts = TsMaintenance -> <<"1","0","/","0","3"," ","0","8",":","1","5">>

\* the overall indicator through the lookup table, anything else operational
ExpectedOverall(indicator) ==
    CASE indicator = "operational"          -> "operational"
      [] indicator = "degraded_performance" -> "degraded"
      [] indicator = "partial_outage"       -> "degraded"
      [] indicator = "major_outage"         -> "investigating"
      [] indicator = "under_maintenance"    -> "scheduled"
      [] indicator = "investigating"        -> "investigating"
      [] OTHER                              -> "operational"

KeepsIncident(e) ==
    e.status \in {"investigating", "identified", "monitoring", "in_progress"}

KeepsMaintenance(e) == e.status \in {"scheduled", "in_progress"}

\* the entries of the last summary body that survive filtering
KeptIncidents ==
    IF "incidents" \in DOMAIN response.data
    THEN SelectSeq(response.data.incidents, KeepsIncident) ELSE <<>>

KeptMaintenances ==
    IF "scheduled_maintenances" \in DOMAIN response.data
    THEN SelectSeq(response.data.scheduled_maintenances, KeepsMaintenance) ELSE <<>>

\* a single call has returned (a call that raises has no result)
FetchReturned == pc = "returned" /\ DOMAIN real_data # {}

\* ... on a success response
FetchReturnedOk == FetchReturned /\ response.kind = "ok"

\* ... on a fetch failure
FetchReturnedFailure ==
    FetchReturned /\ response.kind \in {"connection_error", "timeout", "http_error"}

(***************************************************************************)
(* C1.  For every provider, every outcome of the GET and every response    *)
(* body, fetch_status_page_data does not raise and returns a non-empty     *)
(* list of records with the fields title, status, time, new.               *)
(* Checked under SpecFetch; the code raises on a body with a missing key.  *)
(***************************************************************************)
C1_NeverRaisesNonEmpty ==
    /\ pc # "raised"
    /\ pc = "returned" =>
         /\ DOMAIN real_data # {}
         /\ \A name \in DOMAIN real_data :
              /\ real_data[name] # <<>>
              /\ \A i \in 1..Len(real_data[name]) :
                   DOMAIN real_data[name][i] = IncidentFields

(***************************************************************************)
(* C2.  In the snapshot a run writes, every record under REAL_DATA has a   *)
(* status in {operational, degraded, investigating, scheduled} and every   *)
(* record under STATES_DATA a status in {up, slow}.  Checked under Spec.   *)
(***************************************************************************)
C2_StatusesInEnums ==
    pc = "done" =>
      /\ \A name \in DOMAIN file[1].REAL_DATA :
           \A i \in 1..Len(file[1].REAL_DATA[name]) :
              file[1].REAL_DATA[name][i].status \in IncidentStatusEnum
      /\ \A i \in 1..Len(file[1].STATES_DATA) :
           file[1].STATES_DATA[i].status \in RegionStatusEnum

\* a snapshot written after an unrecognized indicator ("none") and a
\* regional response with a missing flag
C2_Witness ==
    /\ pc = "done"
    /\ response.kind = "ok"
    /\ response.data.status.indicator = "none"
    /\ file[1].REAL_DATA["Pagar.me"][1].status = "operational"
    /\ \E name \in DOMAIN file[1].REAL_DATA :
          \E i \in 1..Len(file[1].REAL_DATA[name]) :
             file[1].REAL_DATA[name][i].status = "scheduled"
    /\ \E i \in 1..Len(file[1].STATES_DATA) : file[1].STATES_DATA[i].status = "slow"

(***************************************************************************)
(* C3.  When the provider GET fails (connection error, timeout, non-       *)
(* success HTTP status), the result is exactly one record: the generic     *)
(* warning title, status "degraded", time = the current time, new = TRUE.  *)
(* Checked under SpecFetch.                                                *)
(***************************************************************************)
C3_FailureGivesOneDegradedRecord ==
    FetchReturnedFailure =>
      \A name \in DOMAIN real_data :
         /\ Len(real_data[name]) = 1
         /\ DOMAIN real_data[name][1] = IncidentFields
         /\ real_data[name][1].title =
               "Erro ao carregar status. Dados podem estar desatualizados."
         /\ real_data[name][1].status = "degraded"
         /\ ReadsAs(real_data[name][1].time, NowDateTime(now))
         /\ real_data[name][1].new = TRUE

C3_Witness ==
    /\ FetchReturnedFailure
    /\ response.kind = "timeout"
    /\ now = 2
    /\ "Pagar.me" \in DOMAIN real_data
    /\ real_data["Pagar.me"][1].status = "degraded"
    /\ real_data["Pagar.me"][1].time = <<"1","0","/","0","3"," ","0","0",":","0","0">>

(***************************************************************************)
(* C4.  When a success response leaves no incident and no maintenance      *)
(* after filtering, the result is exactly one record with title = the      *)
(* status description, new = FALSE and status = the indicator through the  *)
(* lookup table (unrecognized: "operational"); when an entry survives, no  *)
(* such synthetic record is in the result.  Checked under SpecFetch, of    *)
(* every call that returns.                                                *)
(***************************************************************************)
C4_SyntheticOverallRecord ==
    FetchReturnedOk =>
      \A name \in DOMAIN real_data :
         IF KeptIncidents = <<>> /\ KeptMaintenances = <<>>
         THEN /\ Len(real_data[name]) = 1
              /\ DOMAIN real_data[name][1] = IncidentFields
              /\ real_data[name][1].title = response.data.status.description
              /\ real_data[name][1].status =
                    ExpectedOverall(response.data.status.indicator)
              /\ ReadsAs(real_data[name][1].time, NowDateTime(now))
              /\ real_data[name][1].new = FALSE
         ELSE \A i \in 1..Len(real_data[name]) : real_data[name][i].new = TRUE

\* the example of the specification: major_outage, "X down", empty lists
C4_Witness ==
    /\ FetchReturnedOk
    /\ response.data = [status |-> [indicator |-> "major_outage", description |-> "X down"],
                        incidents |-> <<>>, scheduled_maintenances |-> <<>>]
    /\ \E name \in DOMAIN real_data :
          /\ real_data[name][1].title = "X down"
          /\ real_data[name][1].status = "investigating"
          /\ real_data[name][1].new = FALSE

BrazilianUFs ==
    {"AC", "AL", "AP", "AM", "BA", "CE", "DF", "ES", "GO", "MA", "MT", "MS", "MG",
     "PA", "PB", "PR", "PE", "PI", "RJ", "RN", "RS", "RO", "RR", "SC", "SP", "SE", "TO"}

SefazReturnedFailure ==
    pc = "returned" /\ sefaz_response.kind \in {"connection_error", "timeout", "http_error"}

(***************************************************************************)
(* C5.  When the regional GET fails, the result is the fixed fallback      *)
(* list: 27 records, 27 pairwise distinct region codes, 26 "up" and        *)
(* exactly one, CE, "slow".  Checked under SpecSefaz.                      *)
(***************************************************************************)
C5_FailureGivesFallback ==
    SefazReturnedFailure =>
      /\ Len(states_data) = 27
      /\ \A i, j \in 1..Len(states_data) :
            states_data[i].uf = states_data[j].uf => i = j
      /\ {states_data[i].uf : i \in 1..Len(states_data)} = BrazilianUFs
      /\ Cardinality({i \in 1..Len(states_data) : states_data[i].status = "up"}) = 26
      /\ Cardinality({i \in 1..Len(states_data) : states_data[i].status = "slow"}) = 1
      /\ \A i \in 1..Len(states_data) :
            states_data[i].status = "slow" <=> states_data[i].uf = "CE"

C5_Witness ==
    /\ SefazReturnedFailure
    /\ sefaz_response.kind = "http_error"
    /\ Len(states_data) = 27
    /\ states_data[6] = [uf |-> "CE", status |-> "slow"]

(***************************************************************************)
(* C6.  Every run of main, whatever the fetches give, ends with the file   *)
(* holding a document with the keys REAL_DATA and STATES_DATA, REAL_DATA   *)
(* having one key per provider, each with a non-empty list.  Checked under *)
(* Spec; a run that a malformed body terminates writes nothing.            *)
(***************************************************************************)
C6_EveryRunEndsWithCompleteFile ==
    pc \in {"done", "failed"} =>
      /\ file # <<>>
      /\ DOMAIN file[1] = {"REAL_DATA", "STATES_DATA"}
      /\ DOMAIN file[1].REAL_DATA = STATUS_PAGES
      /\ \A name \in STATUS_PAGES : file[1].REAL_DATA[name] # <<>>

SefazReturnedOk == pc = "returned" /\ sefaz_response.kind = "ok"

ExpectedRegionStatus(info) ==
    IF "status" \in DOMAIN info /\ info.status \in {"true", "1"} THEN "up" ELSE "slow"

(***************************************************************************)
(* C7.  On a successful regional response the result has one record per    *)
(* key of the response object, in its iteration order, uf = the key,       *)
(* status "up" when the flag is truthy and "slow" when it is falsy or      *)
(* missing; the fallback list is not used.  Checked under SpecSefaz, of    *)
(* every call that returns.                                                *)
(***************************************************************************)
C7_OneRecordPerKeyInOrder ==
    SefazReturnedOk =>
      /\ Len(states_data) = Len(sefaz_response.data)
      /\ \A i \in 1..Len(states_data) :
            /\ DOMAIN states_data[i] = {"uf", "status"}
            /\ states_data[i].uf = sefaz_response.data[i].uf
            /\ states_data[i].status = ExpectedRegionStatus(sefaz_response.data[i].info)
      /\ states_data # SefazFallback

C7_Witness ==
    /\ SefazReturnedOk
    /\ Len(sefaz_response.data) = 3
    /\ sefaz_response.data[1].uf = "SP"
    /\ sefaz_response.data[1].info = [status |-> "1", nome |-> "Estado"]
    /\ sefaz_response.data[2].uf = "CE"
    /\ sefaz_response.data[2].info = [nome |-> "Estado"]
    /\ sefaz_response.data[3].uf = "MG"
    /\ sefaz_response.data[3].info = [status |-> "false", nome |-> "Estado"]
    /\ states_data = <<[uf |-> "SP", status |-> "up"], [uf |-> "CE", status |-> "slow"],
                       [uf |-> "MG", status |-> "slow"]>>

(***************************************************************************)
(* C8.  The time of every retained incident (maintenance) is its creation  *)
(* (scheduled-start) timestamp without the sub-second part, rendered as    *)
(* day/month hour:minute; "2024-01-02T03:04:05.000Z" gives "02/01 03:04".  *)
(* Checked under SpecFetch.                                                *)
(***************************************************************************)
C8_TimeIsTruncatedTimestamp ==
    (FetchReturnedOk /\ KeptIncidents \o KeptMaintenances # <<>>) =>
      \A name \in DOMAIN real_data :
         /\ Len(real_data[name]) = Len(KeptIncidents) + Len(KeptMaintenances)
         /\ \A i \in 1..Len(KeptIncidents) :
               real_data[name][i].time = ExpectedTime(KeptIncidents[i].created_at)
         /\ \A j \in 1..Len(KeptMaintenances) :
               real_data[name][Len(KeptIncidents) + j].time =
                  ExpectedTime(KeptMaintenances[j].scheduled_for)

C8_Witness ==
    /\ FetchReturnedOk
    /\ Len(KeptIncidents) = 1 /\ Len(KeptMaintenances) = 1
    /\ KeptIncidents[1].status = "identified"
    /\ KeptIncidents[1].created_at = TsExample
    /\ KeptMaintenances[1].scheduled_for = TsOffset
    /\ \E name \in DOMAIN real_data :
          /\ real_data[name][1].time = <<"0","2","/","0","1"," ","0","3",":","0","4">>
          /\ real_data[name][2].time = <<"3","1","/","1","2"," ","2","3",":","5","9">>

(***************************************************************************)
(* C9.  On a success response where an entry survives filtering, the       *)
(* result is the incidents with lifecycle status in {investigating,        *)
(* identified, monitoring, in_progress}, in input order, followed by the   *)
(* maintenances with lifecycle status in {scheduled, in_progress}, in      *)
(* input order; maintenances have status "scheduled", incidents a status   *)
(* of the enum ("investigating" when the lifecycle status is not in the    *)
(* lookup table), and every record has new = TRUE.  Checked under          *)
(* SpecFetch, of every call that returns.                                  *)
(***************************************************************************)
C9_RetainedEntriesInOrder ==
    (FetchReturnedOk /\ KeptIncidents \o KeptMaintenances # <<>>) =>
      \A name \in DOMAIN real_data :
         /\ Len(real_data[name]) = Len(KeptIncidents) + Len(KeptMaintenances)
         /\ \A i \in 1..Len(KeptIncidents) :
               /\ DOMAIN real_data[name][i] = IncidentFields
               /\ real_data[name][i].title = KeptIncidents[i].name
               /\ ReadsAs(real_data[name][i].time,
                          Strptime(SplitDotFirst(KeptIncidents[i].created_at)))
               /\ real_data[name][i].status \in IncidentStatusEnum
               /\ KeptIncidents[i].status \notin
                     {"operational", "degraded_performance", "partial_outage",
                      "major_outage", "under_maintenance", "investigating"}
                    => real_data[name][i].status = "investigating"
               /\ real_data[name][i].new = TRUE
         /\ \A j \in 1..Len(KeptMaintenances) :
               /\ DOMAIN real_data[name][Len(KeptIncidents) + j] = IncidentFields
               /\ real_data[name][Len(KeptIncidents) + j].title = KeptMaintenances[j].name
               /\ ReadsAs(real_data[name][Len(KeptIncidents) + j].time,
                          Strptime(SplitDotFirst(KeptMaintenances[j].scheduled_for)))
               /\ real_data[name][Len(KeptIncidents) + j].status = "scheduled"
               /\ real_data[name][Len(KeptIncidents) + j].new = TRUE

\* two retained incidents that differ, in input order
C9_Witness ==
    /\ FetchReturnedOk
    /\ Len(KeptIncidents) = 2 /\ KeptMaintenances = <<>>
    /\ KeptIncidents[1].name = "Checkout latency" /\ KeptIncidents[1].status = "identified"
    /\ KeptIncidents[2].name = "API errors" /\ KeptIncidents[2].status = "monitoring"
    /\ \E name \in DOMAIN real_data :
          /\ Len(real_data[name]) = 2
          /\ real_data[name][1].title = "Checkout latency"
          /\ real_data[name][2].title = "API errors"
          /\ real_data[name][2].status = "investigating"

\* the step of main from line 134 to the end
WriteStep == pc = "write" /\ pc' = "done"

\* what every step of a run satisfies: none follows the end of the run, only
\* the write step ends it normally, the write step comes after all fetches
\* and stores this run's document, and no other step touches the file
C10_StepWritesOnceAtEnd ==
    /\ pc \notin {"done", "failed"}
    /\ pc' = "done" => WriteStep
    /\ WriteStep =>
         /\ DOMAIN real_data = STATUS_PAGES
         /\ sefaz_response # NoResponse
         /\ file' = <<[REAL_DATA |-> real_data, STATES_DATA |-> states_data]>>
    /\ ~ WriteStep => file' = file
    /\ pc' = "failed" => file' = file

(***************************************************************************)
(* C10.  In a run of main the file is written at most once and only after  *)
(* every provider fetch and the regional fetch have returned; what is      *)
(* written is the document of this run's results, whatever the file held;  *)
(* a run terminated by a failure in a fetch leaves the file as it was.     *)
(* Checked under Spec: the only step that touches the file is the one that *)
(* leaves "write", it is taken with every provider fetched, no step        *)
(* follows "done" or "failed", and a failed run still holds a prior file.  *)
(***************************************************************************)
C10_WrittenOnceAfterAllFetches ==
    /\ [][C10_StepWritesOnceAtEnd]_vars
    /\ [](pc = "failed" => file \in PriorFiles)

\* a finished run that replaced an existing file holding something else
C10_Witness ==
    /\ pc = "done"
    /\ DOMAIN real_data = STATUS_PAGES
    /\ file = <<[REAL_DATA |-> real_data, STATES_DATA |-> states_data]>>
    /\ file # <<OldSnapshot>>
    /\ real_data["AnyMarket"][1].status = "degraded"

====
